---- MODULE Spec2Model ----
(***************************************************************************)
(* StudyTracker backend (Django REST): the Student / Test / Mark tables,   *)
(* the serializer write paths of the three ModelViewSets, the cascading    *)
(* deletes, and the two report views test_topper and                       *)
(* global_top_performers.                                                  *)
(*                                                                         *)
(* Conventions of the model:                                               *)
(*  - a table is a function from the primary keys in use to rows;          *)
(*  - a request body is a record of field values together with the set     *)
(*    `given` of the fields present in it (data.get(f) is None exactly     *)
(*    when f is not in given);                                             *)
(*  - roll_number strings are represented by their rank in the collation   *)
(*    order (only equality and ORDER BY read them), test dates by day      *)
(*    numbers;                                                             *)
(*  - a percentage is held in hundredths (9250 is 92.5), the unit          *)
(*    round(x, 2) rounds to;                                               *)
(*  - resp is the last response of a report view: the view, its query      *)
(*    parameters, the status, the list as built and the list returned;     *)
(*    a refused write leaves every table as it was;                        *)
(*  - pending holds, for each request worker that has validated a mark     *)
(*    creation and not yet saved it, the row it is about to insert.        *)
(***************************************************************************)
EXTENDS Integers, Sequences, FiniteSets, TLC

\* ---------------------------------------------------------------- bounds
MaxStudents == 2
MaxTests == 2
MaxMarkRows == 2
MaxScore == 2
MaxPatchFields == 1
MaxRankStudents == 3
MaxRankMarks == 3
MaxLimit == 2
MaxWorkers == 2
MaxRoundMarks == 32

StudentIds == 1..MaxStudents
TestIds == 1..MaxTests
MarkIds == 1..MaxMarkRows
Workers == 1..MaxWorkers
SubjectNames == {"Mathematics", "Science"}
Scores == (0 - 1)..MaxScore

VARIABLES students, tests, marks, nextStudentId, nextTestId, nextMarkId, pending, resp

vars == <<students, tests, marks, nextStudentId, nextTestId, nextMarkId, pending, resp>>

corpus == <<students, tests, marks, nextStudentId, nextTestId, nextMarkId, pending>>

\* ---------------------------------------------------------------- tables
EmptyTable == [i \in {} |-> 0]

Insert(tab, id, row) == [i \in (DOMAIN tab) \cup {id} |-> IF i = id THEN row ELSE tab[i]]

Remove(tab, ids) == [i \in (DOMAIN tab) \ ids |-> tab[i]]

\* a report request: the query parameters, NoParam / "" where one is absent
Request(test_id, class_name, limit) ==
    [test_id |-> test_id, class_name |-> class_name, limit |-> limit]

\* a report response: the status, the list the handler built before sorting
\* (toppers / performers as appended) and the list it returned
Response(op, request, status, unranked, body) ==
    [op |-> op, request |-> request, status |-> status, unranked |-> unranked, body |-> body]

NoResponse == Response("none", Request(0, "", 0), 0, <<>>, <<>>)

\* the empty database after migration; the AutoField keys start at 1
Init ==
    /\ students = EmptyTable
    /\ tests = EmptyTable
    /\ marks = EmptyTable
    /\ nextStudentId = 1
    /\ nextTestId = 1
    /\ nextMarkId = 1
    /\ pending = EmptyTable
    /\ resp = NoResponse

\* ------------------------------------------------------ StudentSerializer
StudentFields == {"roll_number", "class_name", "email"}

\* instance is the pk of the row being updated, 0 on create
validate_roll_number(instance, value) ==
    ~ \E s \in (DOMAIN students) \ {instance} : students[s].roll_number = value

\* validate_email without the lookup
validate_email_unchecked(instance, value) == TRUE

validate_email(instance, value) ==
    ~ \E s \in (DOMAIN students) \ {instance} : students[s].email = value

StudentError(instance, partial, given, data) ==
    IF ~partial /\ given # StudentFields THEN "required"
    ELSE IF "roll_number" \in given /\ ~validate_roll_number(instance, data.roll_number)
        THEN "unique_roll_number"
    ELSE IF "email" \in given /\ ~validate_email(instance, data.email)
        THEN "unique_email"
    ELSE ""

StudentMerged(old, given, data) ==
    [roll_number |-> IF "roll_number" \in given THEN data.roll_number ELSE old.roll_number,
     class_name |-> IF "class_name" \in given THEN data.class_name ELSE old.class_name,
     email |-> IF "email" \in given THEN data.email ELSE old.email]

\* the request bodies submitted to the student endpoints: two complete
\* registrations and a body holding the roll number alone
StudentRequests ==
    {[given |-> StudentFields,
      data |-> [roll_number |-> 1, class_name |-> "10A", email |-> 1]],
     [given |-> StudentFields,
      data |-> [roll_number |-> 2, class_name |-> "10B", email |-> 2]],
     [given |-> {"roll_number"},
      data |-> [roll_number |-> 1, class_name |-> "", email |-> 0]]}

StudentCreate ==
    \E req \in StudentRequests :
        /\ nextStudentId <= MaxStudents
        /\ IF StudentError(0, FALSE, req.given, req.data) = ""
           THEN /\ students' = Insert(students, nextStudentId,
                                      StudentMerged(req.data, req.given, req.data))
                /\ nextStudentId' = nextStudentId + 1
                /\ UNCHANGED <<tests, marks, nextTestId, nextMarkId, pending, resp>>
           ELSE UNCHANGED vars

StudentUpdate ==
    \E id \in DOMAIN students : \E partial \in BOOLEAN : \E req \in StudentRequests :
        IF StudentError(id, partial, req.given, req.data) = ""
        THEN /\ students' = Insert(students, id, StudentMerged(students[id], req.given, req.data))
             /\ UNCHANGED <<tests, marks, nextStudentId, nextTestId, nextMarkId, pending, resp>>
        ELSE UNCHANGED vars

\* the foreign key without its cascade
CascadeStudentNone(id) == marks

\* Mark.student: on_delete=CASCADE
CascadeStudent(id) == Remove(marks, {m \in DOMAIN marks : marks[m].student = id})

StudentDelete ==
    \E id \in DOMAIN students :
        /\ students' = Remove(students, {id})
        /\ marks' = CascadeStudent(id)
        /\ UNCHANGED <<tests, nextStudentId, nextTestId, nextMarkId, pending, resp>>

\* --------------------------------------------------------- TestSerializer
TestFields == {"date", "subjects"}

SubjectNamesOf(subjects) == [i \in DOMAIN subjects |-> subjects[i].name]

InSeq(x, s) == \E i \in DOMAIN s : s[i] = x

SeqToSet(s) == {s[i] : i \in DOMAIN s}

\* SubjectSerializer: max_marks = IntegerField(min_value=1)
SubjectSerializerValid(subjects) == \A i \in DOMAIN subjects : subjects[i].max_marks >= 1

\* validate_subjects with the emptiness check alone
validate_subjects_not_empty(value) ==
    IF Len(value) = 0 THEN "empty_subjects" ELSE ""

validate_subjects(value) ==
    IF Len(value) = 0 THEN "empty_subjects"
    ELSE IF Len(value) # Cardinality(SeqToSet(SubjectNamesOf(value))) THEN "duplicate_subjects"
    ELSE ""

TestError(partial, given, data) ==
    IF ~partial /\ given # TestFields THEN "required"
    ELSE IF "subjects" \in given /\ ~SubjectSerializerValid(data.subjects) THEN "min_value"
    ELSE IF "subjects" \in given THEN validate_subjects(data.subjects)
    ELSE ""

Subject(name, max_marks) == [name |-> name, max_marks |-> max_marks]

FullCatalogue == <<Subject("Mathematics", 2), Subject("Science", 1)>>

EditedCatalogue == <<Subject("Mathematics", 1)>>

\* the request bodies submitted to the test endpoints: a complete test, a body
\* holding an edited catalogue alone (Mathematics lowered to 1, Science removed),
\* and one body for each way validation rejects
TestRequests ==
    {[given |-> TestFields, data |-> [date |-> 1, subjects |-> FullCatalogue]],
     [given |-> {"subjects"}, data |-> [date |-> 0, subjects |-> EditedCatalogue]],
     [given |-> TestFields, data |-> [date |-> 1, subjects |-> <<>>]],
     [given |-> TestFields,
      data |-> [date |-> 1, subjects |-> <<Subject("Science", 1), Subject("Science", 2)>>]],
     [given |-> TestFields, data |-> [date |-> 1, subjects |-> <<Subject("Science", 0)>>]]}

TestSerializerCreate(data) == [date |-> data.date, subjects |-> data.subjects]

TestSerializerUpdate(instance, given, data) ==
    [date |-> IF "date" \in given THEN data.date ELSE instance.date,
     subjects |-> IF "subjects" \in given THEN data.subjects ELSE instance.subjects]

TestCreate ==
    \E req \in TestRequests :
        /\ nextTestId <= MaxTests
        /\ IF TestError(FALSE, req.given, req.data) = ""
           THEN /\ tests' = Insert(tests, nextTestId, TestSerializerCreate(req.data))
                /\ nextTestId' = nextTestId + 1
                /\ UNCHANGED <<students, marks, nextStudentId, nextMarkId, pending, resp>>
           ELSE UNCHANGED vars

\* a test update that drops the marks whose subject left the catalogue
TestUpdateRevalidating ==
    \E id \in DOMAIN tests : \E partial \in BOOLEAN : \E req \in TestRequests :
        IF TestError(partial, req.given, req.data) = ""
        THEN /\ tests' = Insert(tests, id, TestSerializerUpdate(tests[id], req.given, req.data))
             /\ marks' = Remove(marks,
                    {m \in DOMAIN marks :
                        /\ marks[m].test = id
                        /\ ~InSeq(marks[m].subject_name, SubjectNamesOf(tests'[id].subjects))})
             /\ UNCHANGED <<students, nextStudentId, nextTestId, nextMarkId, pending, resp>>
        ELSE UNCHANGED vars

TestUpdate ==
    \E id \in DOMAIN tests : \E partial \in BOOLEAN : \E req \in TestRequests :
        IF TestError(partial, req.given, req.data) = ""
        THEN /\ tests' = Insert(tests, id, TestSerializerUpdate(tests[id], req.given, req.data))
             /\ UNCHANGED <<students, marks, nextStudentId, nextTestId, nextMarkId, pending, resp>>
        ELSE UNCHANGED vars

\* Mark.test: on_delete=CASCADE
CascadeTest(id) == Remove(marks, {m \in DOMAIN marks : marks[m].test = id})

TestDelete ==
    \E id \in DOMAIN tests :
        /\ tests' = Remove(tests, {id})
        /\ marks' = CascadeTest(id)
        /\ UNCHANGED <<students, nextStudentId, nextTestId, nextMarkId, pending, resp>>

\* --------------------------------------------------------- MarkSerializer
MarkFields == {"student_id", "test_id", "subject_name", "marks_obtained", "max_marks"}

MarkInputs(given) ==
    [student_id : IF "student_id" \in given THEN StudentIds ELSE {0},
     test_id : IF "test_id" \in given THEN TestIds ELSE {0},
     subject_name : IF "subject_name" \in given THEN SubjectNames ELSE {""},
     marks_obtained : IF "marks_obtained" \in given THEN Scores ELSE {0},
     max_marks : IF "max_marks" \in given THEN 0..MaxScore ELSE {0}]

\* the request bodies submitted to the mark endpoints: every complete body and
\* every body of at most MaxPatchFields fields over the value sets above
MarkRequests ==
    UNION {[given : {g}, data : MarkInputs(g)] :
             g \in {h \in SUBSET MarkFields : h = MarkFields \/ Cardinality(h) <= MaxPatchFields}}

\* to_internal_value: the per-field checks, in field order
MarkFieldError(partial, given, data) ==
    IF ~partial /\ given # MarkFields THEN "required"
    ELSE IF "student_id" \in given /\ data.student_id \notin DOMAIN students
        THEN "student_does_not_exist"
    ELSE IF "test_id" \in given /\ data.test_id \notin DOMAIN tests
        THEN "test_does_not_exist"
    ELSE IF "marks_obtained" \in given /\ data.marks_obtained < 0 THEN "negative_marks"
    ELSE IF "max_marks" \in given /\ data.max_marks < 1 THEN "min_value"
    ELSE ""

\* the row the write stores: the instance with the given fields set
MarkMerged(old, given, data) ==
    [student |-> IF "student_id" \in given THEN data.student_id ELSE old.student,
     test |-> IF "test_id" \in given THEN data.test_id ELSE old.test,
     subject_name |-> IF "subject_name" \in given THEN data.subject_name ELSE old.subject_name,
     marks_obtained |-> IF "marks_obtained" \in given THEN data.marks_obtained
                        ELSE old.marks_obtained,
     max_marks |-> IF "max_marks" \in given THEN data.max_marks ELSE old.max_marks]

NoMark == [student |-> 0, test |-> 0, subject_name |-> "", marks_obtained |-> 0, max_marks |-> 0]

MarkInstance(instance) == IF instance = 0 THEN NoMark ELSE marks[instance]

\* the model without the unique_together constraint
UniqueTogetherIgnored(instance, row) == TRUE

\* unique_together = ['student', 'test', 'subject_name']; instance is 0 on create
UniqueTogether(instance, row) ==
    ~ \E m \in (DOMAIN marks) \ {instance} :
        /\ marks[m].student = row.student
        /\ marks[m].test = row.test
        /\ marks[m].subject_name = row.subject_name

\* MarkSerializer.validate(data)
MarkValidate(given, data) ==
    IF /\ "marks_obtained" \in given
       /\ "max_marks" \in given
       /\ data.marks_obtained > data.max_marks
    THEN "exceeds_max_marks"
    ELSE IF /\ "test_id" \in given
            /\ "subject_name" \in given
            /\ ~InSeq(data.subject_name, SubjectNamesOf(tests[data.test_id].subjects))
    THEN "subject_not_in_test"
    ELSE ""

\* run_validation: the fields, then the validators, then validate()
MarkError(instance, partial, given, data) ==
    IF MarkFieldError(partial, given, data) # "" THEN MarkFieldError(partial, given, data)
    ELSE IF ~UniqueTogether(instance, MarkMerged(MarkInstance(instance), given, data))
        THEN "unique_together"
    ELSE MarkValidate(given, data)

MarkCreate ==
    \E req \in MarkRequests :
        /\ nextMarkId <= MaxMarkRows
        /\ IF MarkError(0, FALSE, req.given, req.data) = ""
           THEN /\ marks' = Insert(marks, nextMarkId, MarkMerged(NoMark, req.given, req.data))
                /\ nextMarkId' = nextMarkId + 1
                /\ UNCHANGED <<students, tests, nextStudentId, nextTestId, pending, resp>>
           ELSE UNCHANGED vars

MarkUpdate ==
    \E id \in DOMAIN marks : \E partial \in BOOLEAN : \E req \in MarkRequests :
        IF MarkError(id, partial, req.given, req.data) = ""
        THEN /\ marks' = Insert(marks, id, MarkMerged(marks[id], req.given, req.data))
             /\ UNCHANGED <<students, tests, nextStudentId, nextTestId, nextMarkId, pending, resp>>
        ELSE UNCHANGED vars

MarkDelete ==
    \E id \in DOMAIN marks :
        /\ marks' = Remove(marks, {id})
        /\ UNCHANGED <<students, tests, nextStudentId, nextTestId, nextMarkId, pending, resp>>

Next ==
    \/ StudentCreate
    \/ StudentUpdate
    \/ StudentDelete
    \/ TestCreate
    \/ TestUpdate
    \/ TestDelete
    \/ MarkCreate
    \/ MarkUpdate
    \/ MarkDelete

Spec == Init /\ [][Next]_vars

\* ---------------------------------------------------------------- reports
DefaultLimit == 10

NoParam == 0 - 1

Min(a, b) == IF a <= b THEN a ELSE b

Max(a, b) == IF a >= b THEN a ELSE b

\* Mark.Meta.ordering = ['-test__date', 'student__roll_number']
OrderedBefore(a, b) ==
    \/ tests[marks[a].test].date > tests[marks[b].test].date
    \/ /\ tests[marks[a].test].date = tests[marks[b].test].date
       /\ students[marks[a].student].roll_number < students[marks[b].student].roll_number

\* the orders in which the database may return the rows ids: every arrangement
\* the ordering allows (rows equal on both keys come in any order)
QuerySets(ids) ==
    {q \in [1..Cardinality(ids) -> ids] :
        /\ \A i, j \in DOMAIN q : i # j => q[i] # q[j]
        /\ \A i, j \in DOMAIN q : i < j => ~OrderedBefore(q[j], q[i])}

\* the loop with = in place of +=: each student keeps its last row alone
RECURSIVE StudentTotalsLastMark(_)
StudentTotalsLastMark(q) ==
    IF q = <<>> THEN <<>>
    ELSE LET before == StudentTotalsLastMark(SubSeq(q, 1, Len(q) - 1))
             mark == marks[q[Len(q)]]
             entry == [student |-> mark.student,
                       total_obtained |-> mark.marks_obtained,
                       total_maximum |-> mark.max_marks]
         IN  IF \E i \in DOMAIN before : before[i].student = mark.student
             THEN [i \in DOMAIN before |->
                     IF before[i].student = mark.student THEN entry ELSE before[i]]
             ELSE Append(before, entry)

\* the student_totals dict after the loop over the rows q, in insertion order
RECURSIVE StudentTotals(_)
StudentTotals(q) ==
    IF q = <<>> THEN <<>>
    ELSE LET before == StudentTotals(SubSeq(q, 1, Len(q) - 1))
             mark == marks[q[Len(q)]]
         IN  IF \E i \in DOMAIN before : before[i].student = mark.student
             THEN [i \in DOMAIN before |->
                     IF before[i].student = mark.student
                     THEN [student |-> mark.student,
                           total_obtained |-> before[i].total_obtained + mark.marks_obtained,
                           total_maximum |-> before[i].total_maximum + mark.max_marks]
                     ELSE before[i]]
             ELSE Append(before, [student |-> mark.student,
                                  total_obtained |-> mark.marks_obtained,
                                  total_maximum |-> mark.max_marks])

\* round(total_obtained / total_maximum * 100, 2) in hundredths: the nearest
\* hundredth, and the even one when the quotient is exactly halfway
Round2(total_obtained, total_maximum) ==
    LET q == (10000 * total_obtained) \div total_maximum
        r == (10000 * total_obtained) % total_maximum
    IN  IF 2 * r > total_maximum THEN q + 1
        ELSE IF 2 * r < total_maximum THEN q
        ELSE IF q % 2 = 0 THEN q ELSE q + 1

Percentage(total_obtained, total_maximum) ==
    IF total_maximum > 0 THEN Round2(total_obtained, total_maximum) ELSE 0

\* the toppers / performers list as appended, one entry per dict item
Entries(totals) ==
    [i \in DOMAIN totals |->
        [student |-> totals[i].student,
         total_marks |-> totals[i].total_obtained,
         percentage |-> Percentage(totals[i].total_obtained, totals[i].total_maximum)]]

TotalBelow(a, b) == a.total_marks < b.total_marks

PercentageTotalBelow(a, b) ==
    \/ a.percentage < b.percentage
    \/ a.percentage = b.percentage /\ a.total_marks < b.total_marks

\* the comparison of two entries' sort keys, for the key lambda named by key
KeyBelow(a, b, key) ==
    IF key = "total_marks" THEN TotalBelow(a, b) ELSE PercentageTotalBelow(a, b)

\* list.sort(key, reverse=True) is stable: x goes after the entries whose key is
\* not below its own
InsertDescending(sorted, x, key) ==
    LET n == Cardinality({i \in DOMAIN sorted : ~KeyBelow(sorted[i], x, key)})
    IN  SubSeq(sorted, 1, n) \o <<x>> \o SubSeq(sorted, n + 1, Len(sorted))

\* the list left in dict order
SortToppersOmitted(toppers) == toppers

\* toppers.sort(key=lambda x: x['total_marks'], reverse=True)
RECURSIVE SortToppers(_)
SortToppers(toppers) ==
    IF toppers = <<>> THEN <<>>
    ELSE InsertDescending(SortToppers(SubSeq(toppers, 1, Len(toppers) - 1)),
                          toppers[Len(toppers)], "total_marks")

\* the performers sorted as test_topper sorts, by total_marks alone
RECURSIVE SortPerformersByTotal(_)
SortPerformersByTotal(performers) ==
    IF performers = <<>> THEN <<>>
    ELSE InsertDescending(SortPerformersByTotal(SubSeq(performers, 1, Len(performers) - 1)),
                          performers[Len(performers)], "total_marks")

\* performers.sort(key=lambda x: (x['percentage'], x['total_marks']), reverse=True)
RECURSIVE SortPerformers(_)
SortPerformers(performers) ==
    IF performers = <<>> THEN <<>>
    ELSE InsertDescending(SortPerformers(SubSeq(performers, 1, Len(performers) - 1)),
                          performers[Len(performers)], "percentage_total_marks")

\* performers[:limit]
Slice(performers, limit) ==
    SubSeq(performers, 1,
           IF limit >= 0 THEN Min(limit, Len(performers))
           ELSE Max(Len(performers) + limit, 0))

TestIdParams == {NoParam} \cup (0..MaxTests)

\* Mark.objects.filter(test_id=test_id)
MarksOfTest(test_id) == {m \in DOMAIN marks : marks[m].test = test_id}

\* test_topper without the Test.objects.get lookup: an unknown test_id falls
\* through to the filter, which finds no marks
TestTopperWithoutLookup ==
    \E test_id \in TestIdParams :
        /\ IF test_id = NoParam
           THEN resp' = Response("test_topper", Request(test_id, "", 0), 400, <<>>, <<>>)
           ELSE \E q \in QuerySets(MarksOfTest(test_id)) :
                   LET toppers == Entries(StudentTotals(q)) IN
                   resp' = Response("test_topper", Request(test_id, "", 0), 200,
                                    toppers, SortToppers(toppers))
        /\ UNCHANGED corpus

TestTopper ==
    \E test_id \in TestIdParams :
        /\ IF test_id = NoParam
           THEN resp' = Response("test_topper", Request(test_id, "", 0), 400, <<>>, <<>>)
           ELSE IF test_id \notin DOMAIN tests
           THEN resp' = Response("test_topper", Request(test_id, "", 0), 404, <<>>, <<>>)
           ELSE \E q \in QuerySets(MarksOfTest(test_id)) :
                   LET toppers == Entries(StudentTotals(q)) IN
                   resp' = Response("test_topper", Request(test_id, "", 0), 200,
                                    toppers, SortToppers(toppers))
        /\ UNCHANGED corpus

ClassParams == {"", "10A", "10B"}

LimitParams == ((0 - MaxLimit)..MaxLimit) \cup {DefaultLimit}

\* Mark.objects.all(), filtered by student__class_name when class is given
MarksOfClass(class_name) ==
    {m \in DOMAIN marks : class_name = "" \/ students[marks[m].student].class_name = class_name}

GlobalTopPerformers ==
    \E class_name \in ClassParams : \E limit \in LimitParams :
    \E q \in QuerySets(MarksOfClass(class_name)) :
        LET performers == Entries(StudentTotals(q)) IN
        /\ resp' = Response("global_top_performers", Request(NoParam, class_name, limit), 200,
                            performers, Slice(SortPerformers(performers), limit))
        /\ UNCHANGED corpus

\* ------------------------------------------------- the report specification
\* The reports are functions of the stored rows alone, so they are explored
\* from every corpus of a bounded family: MaxRankStudents students (classes
\* alternating), two tests on different days, and up to MaxRankMarks marks
\* with any scores of RankObtained x RankMaxMarks. Every such corpus is one the
\* write paths reach (max_marks is the caller's, and a partial update sets
\* marks_obtained alone).
RankStudentIds == 1..MaxRankStudents

RankObtained == 1..MaxScore

RankMaxMarks == {1, 3}

RankSlots ==
    {<<s, t, n>> \in RankStudentIds \X {1, 2} \X SubjectNames : t = 1 \/ n = "Mathematics"}

RankRow(slot, obtained, maximum) ==
    [student |-> slot[1], test |-> slot[2], subject_name |-> slot[3],
     marks_obtained |-> obtained, max_marks |-> maximum]

SlotBefore(a, b) ==
    \/ a.student < b.student
    \/ a.student = b.student /\ a.test < b.test
    \/ a.student = b.student /\ a.test = b.test /\ a.subject_name = "Mathematics"
          /\ b.subject_name = "Science"

RankRows == {RankRow(slot, o, x) : slot \in RankSlots, o \in RankObtained, x \in RankMaxMarks}

RankMarkTables ==
    UNION {{tab \in [1..n -> RankRows] : \A i, j \in 1..n : i < j => SlotBefore(tab[i], tab[j])}
              : n \in 0..MaxRankMarks}

InitRank ==
    /\ students = [s \in RankStudentIds |->
                     [roll_number |-> s,
                      class_name |-> IF s % 2 = 1 THEN "10A" ELSE "10B",
                      email |-> s]]
    /\ tests = <<[date |-> 1, subjects |-> FullCatalogue],
                 [date |-> 2, subjects |-> EditedCatalogue]>>
    /\ marks \in RankMarkTables
    /\ nextStudentId = MaxRankStudents + 1
    /\ nextTestId = 3
    /\ nextMarkId = Len(marks) + 1
    /\ pending = EmptyTable
    /\ resp = NoResponse

NextRank ==
    \/ TestTopper
    \/ GlobalTopPerformers

SpecRank == InitRank /\ [][NextRank]_vars

\* ------------------------------------------ concurrent mark creations
\* Two request workers run MarkViewSet.create side by side. Each one first
\* validates its body against the rows stored at that moment (is_valid) and
\* later inserts the row (serializer.save); the steps of the two interleave
\* freely. The INSERT is checked by the database against the unique index
\* that unique_together declares, and fails with IntegrityError on a collision.

\* the table without its unique index
UniqueConstraintAbsent(row) == TRUE

\* the unique index on (student, test, subject_name), as the INSERT sees it
UniqueConstraint(row) ==
    ~ \E m \in DOMAIN marks :
        /\ marks[m].student = row.student
        /\ marks[m].test = row.test
        /\ marks[m].subject_name = row.subject_name

\* the complete bodies, as POST requires
MarkPostRequests == {req \in MarkRequests : req.given = MarkFields}

\* serializer.is_valid() of a worker: a valid body becomes its pending row
MarkCreateValidate ==
    \E w \in Workers \ DOMAIN pending : \E req \in MarkPostRequests :
        IF MarkError(0, FALSE, req.given, req.data) = ""
        THEN /\ pending' = Insert(pending, w, MarkMerged(NoMark, req.given, req.data))
             /\ UNCHANGED <<students, tests, marks, nextStudentId, nextTestId, nextMarkId, resp>>
        ELSE UNCHANGED vars

\* serializer.save() of a worker: the INSERT, refused by the unique index when
\* a row with the triple was stored in the meantime
MarkCreateSave ==
    \E w \in DOMAIN pending :
        /\ nextMarkId <= MaxMarkRows
        /\ pending' = Remove(pending, {w})
        /\ IF UniqueConstraint(pending[w])
           THEN /\ marks' = Insert(marks, nextMarkId, pending[w])
                /\ nextMarkId' = nextMarkId + 1
           ELSE UNCHANGED <<marks, nextMarkId>>
        /\ UNCHANGED <<students, tests, nextStudentId, nextTestId, resp>>

\* one student and one test with the full catalogue, no marks yet
InitRace ==
    /\ students = <<[roll_number |-> 1, class_name |-> "10A", email |-> 1]>>
    /\ tests = <<[date |-> 1, subjects |-> FullCatalogue]>>
    /\ marks = EmptyTable
    /\ nextStudentId = 2
    /\ nextTestId = 2
    /\ nextMarkId = 1
    /\ pending = EmptyTable
    /\ resp = NoResponse

NextRace ==
    \/ MarkCreateValidate
    \/ MarkCreateSave

SpecRace == InitRace /\ [][NextRace]_vars

\* ------------------------------------------- the rounding specification
\* The percentage is a function of one student's two totals, so it is explored
\* from every corpus holding one student with one mark of any score
\* 0..max_marks out of any max_marks 1..MaxRoundMarks, on a test whose
\* catalogue gives the subject that maximum.
InitRound ==
    \E maximum \in 1..MaxRoundMarks : \E obtained \in 0..maximum :
        /\ students = <<[roll_number |-> 1, class_name |-> "10A", email |-> 1]>>
        /\ tests = <<[date |-> 1, subjects |-> <<Subject("Mathematics", maximum)>>]>>
        /\ marks = <<[student |-> 1, test |-> 1, subject_name |-> "Mathematics",
                      marks_obtained |-> obtained, max_marks |-> maximum]>>
        /\ nextStudentId = 2
        /\ nextTestId = 2
        /\ nextMarkId = 2
        /\ pending = EmptyTable
        /\ resp = NoResponse

SpecRound == InitRound /\ [][NextRank]_vars

\* ------------------------------------------ reports after mark writes
\* The reports asked between the writes of marks and of the catalogue: from a
\* database with one student and one test, any sequence of MarkViewSet create,
\* update and partial_update and of TestViewSet update and partial_update,
\* with either report requested at any point.
InitWritten ==
    /\ students = <<[roll_number |-> 1, class_name |-> "10A", email |-> 1]>>
    /\ tests = <<[date |-> 1, subjects |-> FullCatalogue]>>
    /\ marks = EmptyTable
    /\ nextStudentId = 2
    /\ nextTestId = 2
    /\ nextMarkId = 1
    /\ pending = EmptyTable
    /\ resp = NoResponse

NextWritten ==
    \/ MarkCreate
    \/ MarkUpdate
    \/ TestUpdate
    \/ TestTopper
    \/ GlobalTopPerformers

SpecWritten == InitWritten /\ [][NextWritten]_vars

\* ------------------------------------------------------------ properties
Triple(row) == <<row.student, row.test, row.subject_name>>

\* the mark rows a step inserted or changed
Written(m) == m \in DOMAIN marks' /\ (m \notin DOMAIN marks \/ marks'[m] # marks[m])

\* the mark rows a step inserted, or whose subject or test it changed
Placed(m) ==
    /\ m \in DOMAIN marks'
    /\ \/ m \notin DOMAIN marks
       \/ marks'[m].subject_name # marks[m].subject_name
       \/ marks'[m].test # marks[m].test

\* C1: every stored Mark has 0 <= marks_obtained <= max_marks and max_marks >= 1.
C1_MarksWithinMaximum ==
    \A m \in DOMAIN marks :
        /\ 0 <= marks[m].marks_obtained
        /\ marks[m].marks_obtained <= marks[m].max_marks
        /\ marks[m].max_marks >= 1

\* C2: the max_marks an accepted Mark write stores is the max_marks of the entry
\* named by the Mark's subject in its Test's catalogue at that time.
C2_MaxMarksSnapshotOfCatalogue ==
    [][\A m \in MarkIds : Written(m) =>
          \A i \in DOMAIN tests[marks'[m].test].subjects :
              tests[marks'[m].test].subjects[i].name = marks'[m].subject_name
                  => marks'[m].max_marks = tests[marks'[m].test].subjects[i].max_marks]_vars

\* C3: a Mark write that creates a Mark or changes its subject_name or test is
\* accepted only if the resulting subject_name is in the catalogue of the
\* resulting Test.
C3_SubjectInCatalogueWhenWritten ==
    [][\A m \in MarkIds : Placed(m) =>
          InSeq(marks'[m].subject_name, SubjectNamesOf(tests[marks'[m].test].subjects))]_vars

\* C4: no two stored Marks share (student, test, subject_name); a create or an
\* update onto a triple another Mark holds is rejected; an update that keeps the
\* Mark's own triple is never rejected for uniqueness.
C4_UniqueTriple ==
    /\ \A a, b \in DOMAIN marks : a # b => Triple(marks[a]) # Triple(marks[b])
    /\ \A req \in MarkRequests :
          (/\ req.given = MarkFields
           /\ \E m \in DOMAIN marks :
                 Triple(marks[m]) = Triple(MarkMerged(NoMark, req.given, req.data)))
              => MarkError(0, FALSE, req.given, req.data) # ""
    /\ \A id \in DOMAIN marks : \A partial \in BOOLEAN : \A req \in MarkRequests :
          LET row == MarkMerged(marks[id], req.given, req.data) IN
          /\ (\E m \in (DOMAIN marks) \ {id} : Triple(marks[m]) = Triple(row))
                => MarkError(id, partial, req.given, req.data) # ""
          /\ Triple(row) = Triple(marks[id])
                => MarkError(id, partial, req.given, req.data) # "unique_together"

\* two Marks of one student in one test, and the partial update that renames the
\* first to the second's subject is refused by the uniqueness check
C4_Witness ==
    \E a, b \in DOMAIN marks :
        /\ a # b
        /\ marks[a].student = marks[b].student
        /\ marks[a].test = marks[b].test
        /\ MarkError(a, TRUE, {"subject_name"},
                     [student_id |-> 0, test_id |-> 0, subject_name |-> marks[b].subject_name,
                      marks_obtained |-> 0, max_marks |-> 0]) = "unique_together"

\* C5: a step that changes a stored Test in place leaves the Mark table as it was.
C5_TestUpdateKeepsMarks ==
    [][(DOMAIN tests' = DOMAIN tests /\ tests' # tests) => marks' = marks]_vars

\* a test whose catalogue was edited (Mathematics lowered to 1, Science removed)
\* still carries a Mathematics mark out of 2 and a Science mark
C5_Witness ==
    \E a, b \in DOMAIN marks :
        /\ marks[a].test = marks[b].test
        /\ tests[marks[a].test].subjects = EditedCatalogue
        /\ marks[a].subject_name = "Mathematics" /\ marks[a].max_marks = 2
        /\ marks[b].subject_name = "Science" /\ marks[b].max_marks = 1

ReferencesExist ==
    \A m \in DOMAIN marks :
        marks[m].student \in DOMAIN students /\ marks[m].test \in DOMAIN tests

\* C6: every stored Mark references an existing Student and an existing Test, and
\* a step that deletes a Student or a Test removes exactly the Marks that
\* referenced it.
C6_CascadeDelete ==
    /\ []ReferencesExist
    /\ [][(DOMAIN students' # DOMAIN students /\ DOMAIN students' \subseteq DOMAIN students)
            => marks' = [m \in {x \in DOMAIN marks : marks[x].student \in DOMAIN students'}
                           |-> marks[m]]]_vars
    /\ [][(DOMAIN tests' # DOMAIN tests /\ DOMAIN tests' \subseteq DOMAIN tests)
            => marks' = [m \in {x \in DOMAIN marks : marks[x].test \in DOMAIN tests'}
                           |-> marks[m]]]_vars

\* student 1 and its mark 1 are gone, student 2 and its mark 2 remain
C6_Witness ==
    /\ nextStudentId = 3 /\ DOMAIN students = {2}
    /\ nextMarkId = 3 /\ DOMAIN marks = {2}
    /\ marks[2].student = 2

IsTopperResponse == resp.op = "test_topper" /\ resp.status = 200

IsPerformersResponse == resp.op = "global_top_performers" /\ resp.status = 200

\* C7: the list test_topper returns holds every candidate and is ordered by
\* total_marks, non-increasing.
C7_ToppersByTotalDescending ==
    IsTopperResponse =>
        /\ \A i, j \in DOMAIN resp.body :
              i < j => resp.body[i].total_marks >= resp.body[j].total_marks
        /\ SeqToSet(resp.body) = SeqToSet(resp.unranked)
        /\ Len(resp.body) = Len(resp.unranked)

\* two students with different totals, returned in another order than the dict's
C7_Witness ==
    /\ IsTopperResponse
    /\ Len(resp.body) >= 2
    /\ resp.body[1].total_marks > resp.body[2].total_marks
    /\ resp.body # resp.unranked

\* the Marks a report scans, as the claim states them
ScannedMarks ==
    IF resp.op = "test_topper"
    THEN {m \in DOMAIN marks : marks[m].test = resp.request.test_id}
    ELSE IF resp.request.class_name = "" THEN DOMAIN marks
    ELSE {m \in DOMAIN marks :
            students[marks[m].student].class_name = resp.request.class_name}

RECURSIVE SumObtained(_)
SumObtained(ids) ==
    IF ids = {} THEN 0
    ELSE LET m == CHOOSE x \in ids : TRUE
         IN  marks[m].marks_obtained + SumObtained(ids \ {m})

\* C8: in both reports every student with a Mark in the scanned set has exactly
\* one entry in the unranked list, and its total_marks is the sum of
\* marks_obtained over that student's scanned Marks.
C8_OneEntryPerStudentWithItsSum ==
    (IsTopperResponse \/ IsPerformersResponse) =>
        \A s \in {marks[m].student : m \in ScannedMarks} :
            /\ Cardinality({i \in DOMAIN resp.unranked : resp.unranked[i].student = s}) = 1
            /\ \A i \in DOMAIN resp.unranked :
                  resp.unranked[i].student = s =>
                      resp.unranked[i].total_marks
                          = SumObtained({m \in ScannedMarks : marks[m].student = s})

\* the class report over a student with marks in two tests, with another
\* class's mark left out of the scan
C8_Witness ==
    /\ IsPerformersResponse
    /\ resp.request.class_name = "10A"
    /\ ScannedMarks # DOMAIN marks
    /\ \E a, b \in ScannedMarks :
          marks[a].student = marks[b].student /\ marks[a].test # marks[b].test

RanksAbove(a, b) ==
    \/ a.percentage > b.percentage
    \/ a.percentage = b.percentage /\ a.total_marks > b.total_marks

\* C9: the list global_top_performers returns is ordered by (percentage,
\* total_marks) descending, its entries are candidates, and no candidate left
\* out ranks strictly above a returned one.
C9_PerformersByPercentageThenTotal ==
    IsPerformersResponse =>
        /\ \A i, j \in DOMAIN resp.body :
              i < j => \/ resp.body[i].percentage > resp.body[j].percentage
                       \/ /\ resp.body[i].percentage = resp.body[j].percentage
                          /\ resp.body[i].total_marks >= resp.body[j].total_marks
        /\ SeqToSet(resp.body) \subseteq SeqToSet(resp.unranked)
        /\ \A c \in SeqToSet(resp.unranked) \ SeqToSet(resp.body) :
              \A i \in DOMAIN resp.body : ~RanksAbove(c, resp.body[i])

\* a truncated list whose first entry wins on percentage with the smaller total
C9_Witness ==
    /\ IsPerformersResponse
    /\ resp.request.limit > 0
    /\ Len(resp.body) >= 2
    /\ Len(resp.body) < Len(resp.unranked)
    /\ resp.body[1].total_marks < resp.body[2].total_marks

\* C10: for every limit <= 0 global_top_performers returns an empty list.
C10_NonPositiveLimitReturnsNothing ==
    (IsPerformersResponse /\ resp.request.limit <= 0) => resp.body = <<>>

\* C11: test_topper answers 404 exactly when no Test has the requested id, and
\* for an existing Test without marks it answers 200 with an empty list.
C11_NotFoundExactlyWhenTestMissing ==
    (resp.op = "test_topper" /\ resp.request.test_id # NoParam) =>
        /\ (resp.status = 404) <=> (resp.request.test_id \notin DOMAIN tests)
        /\ (resp.request.test_id \in DOMAIN tests /\ MarksOfTest(resp.request.test_id) = {})
              => (resp.status = 200 /\ resp.body = <<>>)

\* an existing test without marks was asked for and answered with the empty list
C11_Witness ==
    /\ resp.op = "test_topper"
    /\ resp.request.test_id \in DOMAIN tests
    /\ MarksOfTest(resp.request.test_id) = {}
    /\ marks # <<>>
    /\ resp.status = 200
    /\ resp.body = <<>>

\* C12: when mark creations for one (student, test, subject_name) triple run
\* concurrently, validations and inserts interleaved in any order, no state
\* holds two marks with that triple, and an insert that finds the triple stored
\* stores nothing.
C12_ConcurrentCreatesStoreOne ==
    /\ [](\A m1, m2 \in DOMAIN marks : Triple(marks[m1]) = Triple(marks[m2]) => m1 = m2)
    /\ [][\A w \in DOMAIN pending :
            (w \notin DOMAIN pending'
               /\ \E m \in DOMAIN marks : Triple(marks[m]) = Triple(pending[w]))
            => marks' = marks]_vars

\* both workers validated the same triple while it was free, one has inserted
\* its row and the other is about to
C12_Witness ==
    \E w \in DOMAIN pending : \E m \in DOMAIN marks :
        /\ Triple(marks[m]) = Triple(pending[w])
        /\ nextMarkId <= MaxMarkRows

\* a catalogue with at least one entry and no name twice
WellFormedCatalogue(subjects) ==
    /\ Len(subjects) > 0
    /\ \A i, j \in DOMAIN subjects : subjects[i].name = subjects[j].name => i = j

\* C13: every stored Test has a non-empty catalogue without a repeated name,
\* and a create or update whose subjects list is empty or repeats a name is
\* rejected (a rejected write changes nothing).
C13_CatalogueNonEmptyAndDistinct ==
    /\ \A t \in DOMAIN tests : WellFormedCatalogue(tests[t].subjects)
    /\ \A req \in TestRequests : \A partial \in BOOLEAN :
          ("subjects" \in req.given /\ ~WellFormedCatalogue(req.data.subjects))
              => TestError(partial, req.given, req.data) # ""

\* a test was created and another one had its catalogue replaced by an update
C13_Witness ==
    /\ \E t \in DOMAIN tests : tests[t].subjects = EditedCatalogue
    /\ \E t \in DOMAIN tests : tests[t].subjects = FullCatalogue

\* the other students holding a roll number / an email
HeldRollNumbers(instance) == {students[s].roll_number : s \in (DOMAIN students) \ {instance}}

HeldEmails(instance) == {students[s].email : s \in (DOMAIN students) \ {instance}}

\* C14: no two students share a roll_number or an email; a create or update
\* carrying a roll_number or email held by another student is rejected, and an
\* update carrying the student's own roll_number and email is accepted.
C14_UniqueRollNumberAndEmail ==
    /\ \A a, b \in DOMAIN students :
          a # b => /\ students[a].roll_number # students[b].roll_number
                   /\ students[a].email # students[b].email
    /\ \A instance \in {0} \cup DOMAIN students : \A req \in StudentRequests :
          \A partial \in BOOLEAN :
              (\/ "roll_number" \in req.given /\ req.data.roll_number \in HeldRollNumbers(instance)
               \/ "email" \in req.given /\ req.data.email \in HeldEmails(instance))
                  => StudentError(instance, partial, req.given, req.data) # ""
    /\ \A id \in DOMAIN students : \A partial \in BOOLEAN :
          StudentError(id, partial, StudentFields, students[id]) = ""

\* a student's roll number was set by a partial update, so that a registration
\* with a free roll number collides with it on the email alone and is refused
C14_Witness ==
    \E id \in DOMAIN students : \E req \in StudentRequests :
        /\ req.given = StudentFields
        /\ req.data.roll_number \notin HeldRollNumbers(0)
        /\ req.data.email = students[id].email
        /\ StudentError(0, FALSE, req.given, req.data) = "unique_email"

RECURSIVE SumMaximum(_)
SumMaximum(ids) ==
    IF ids = {} THEN 0
    ELSE LET m == CHOOSE x \in ids : TRUE
         IN  marks[m].max_marks + SumMaximum(ids \ {m})

\* total_obtained / total_maximum * 100 in hundredths, halves rounded up
RoundHalfUp(total_obtained, total_maximum) ==
    (20000 * total_obtained + total_maximum) \div (2 * total_maximum)

\* C15: in both reports the percentage of an entry is its student's
\* total_obtained / total_maximum * 100 rounded to two decimals, a value exactly
\* halfway between two hundredths going to the upper one.
C15_PercentageRoundsHalfUp ==
    (IsTopperResponse \/ IsPerformersResponse) =>
        \A i \in DOMAIN resp.unranked :
            LET ids == {m \in ScannedMarks : marks[m].student = resp.unranked[i].student}
            IN  SumMaximum(ids) > 0 =>
                    resp.unranked[i].percentage
                        = RoundHalfUp(SumObtained(ids), SumMaximum(ids))

\* C16: every entry a report returns, in any state the mark and catalogue
\* writes reach, has a percentage between 0 and 100 and a total_marks of at
\* least 0.
C16_EntriesWithinRange ==
    (IsTopperResponse \/ IsPerformersResponse) =>
        \A i \in DOMAIN resp.body :
            /\ resp.body[i].percentage >= 0
            /\ resp.body[i].percentage <= 10000
            /\ resp.body[i].total_marks >= 0
====
